---- MODULE Spec2Model ----
(***************************************************************************)
(* Customer Issue Resolution System: the Issue entity and its lifecycle,   *)
(* the in-memory repository and the IssueService facade, as a state        *)
(* machine.  Objects live in a heap (a sequence of Issue records and a     *)
(* sequence of Agent records); references are indices, None is 0.          *)
(***************************************************************************)
EXTENDS Integers, Sequences, FiniteSets, TLC

\* ---------------------------------------------------------------- bounds
MaxIssues == 2          \* Issue objects ever constructed
NumAgents == 2          \* Agent objects the caller holds
MaxClock  == 5          \* operations performed (logical time)
NumThreads == 2         \* threads calling the service concurrently
NumInvThreads == 3      \* threads calling Inventory.get_instance
MaxCalls  == 2          \* get_instance calls per thread

\* ---------------------------------------------------------------- enums
OPEN        == "OPEN"
IN_PROGRESS == "IN_PROGRESS"
RESOLVED    == "RESOLVED"
CLOSED      == "CLOSED"
IssueStatus == {OPEN, IN_PROGRESS, RESOLVED, CLOSED}

Priority == {"LOW", "MEDIUM", "HIGH"}

None == 0

\* ---------------------------------------------------------------- inputs
\* uuid4 values: one more than the issues that can exist, so that an
\* identifier unknown to the repository always exists.
Uuids == 1..(MaxIssues + 1)

AgentRefs == 1..NumAgents
AgentIdPool   == <<"A1", "A2", "A3", "A4">>
AgentNamePool == <<"Agent Smith", "Agent Jones", "Agent Brown", "Agent White">>

\* The caller's arguments to create_issue; priority is stored and never read.
PriorityInputs == {"HIGH"}
Titles       == {"Payment Failure"}
Descriptions == {"Payment not going through"}
Customers    == {[customer_id |-> "C1", name |-> "John Doe", email |-> "john@example.com"]}

MsgNotFound   == "Issue not found"
MsgNotInProg  == "Issue must be IN_PROGRESS to resolve."
MsgNotResolved == "Issue must be RESOLVED to close."

\* thr: the threads calling the service concurrently (SpecConc);
\* inv: the Inventory class and the threads calling get_instance (SpecInv).
VARIABLES heap, agents, repository, clock, last, nOps, thr, inv

vars == <<heap, agents, repository, clock, last, nOps, thr, inv>>

\* The part of the state the program's objects make up.
State == [heap |-> heap, agents |-> agents, repository |-> repository]

\* ---------------------------------------------------------------- Agent
Agent(agent_id, name) ==
    [agent_id |-> agent_id, name |-> name, active_issues |-> <<>>]

\* ---------------------------------------------------------------- Issue
Issue(title, description, customer, priority, uuid, now) ==
    [issue_id    |-> uuid,
     title       |-> title,
     description |-> description,
     customer    |-> customer,
     priority    |-> priority,
     status      |-> OPEN,
     agent       |-> None,
     created_at  |-> now,
     updated_at  |-> now,
     history     |-> <<>>]

add_history_prepend(st, self, action, now) ==
    [st EXCEPT !.heap[self].history =
        <<[timestamp |-> now, action |-> action]>> \o @]

\* Issue._add_history: one entry "<timestamp> - <action>".
add_history(st, self, action, now) ==
    [st EXCEPT !.heap[self].history =
        Append(@, [timestamp |-> now, action |-> action])]

assign_agent_keeps_status(st, self, agent, now) ==
    LET s1 == [st EXCEPT !.heap[self].agent = agent]
        s3 == [s1 EXCEPT !.agents[agent].active_issues =
                            Append(@, s1.heap[self].issue_id)]
    IN add_history(s3, self,
                   <<"Issue assigned to agent", s3.agents[agent].name>>, now)

assign_agent_no_history(st, self, agent, now) ==
    LET s1 == [st EXCEPT !.heap[self].agent = agent]
        s2 == [s1 EXCEPT !.heap[self].status = IN_PROGRESS]
    IN [s2 EXCEPT !.agents[agent].active_issues =
                     Append(@, s2.heap[self].issue_id)]

\* Issue.assign_agent
assign_agent(st, self, agent, now) ==
    LET s1 == [st EXCEPT !.heap[self].agent = agent]
        s2 == [s1 EXCEPT !.heap[self].status = IN_PROGRESS]
        s3 == [s2 EXCEPT !.agents[agent].active_issues =
                            Append(@, s2.heap[self].issue_id)]
    IN add_history(s3, self,
                   <<"Issue assigned to agent", s3.agents[agent].name>>, now)

Raise(st, msg) == [raised |-> TRUE, msg |-> msg, st |-> st, ret |-> None]
Return(st, ret) == [raised |-> FALSE, msg |-> "", st |-> st, ret |-> ret]

resolve_sets_closed(st, self, now) ==
    IF st.heap[self].status # IN_PROGRESS
    THEN Raise(st, MsgNotInProg)
    ELSE LET s1 == [st EXCEPT !.heap[self].status = CLOSED]
             s2 == [s1 EXCEPT !.heap[self].updated_at = now]
         IN Return(add_history(s2, self, <<"Issue resolved">>, now), None)

resolve_unguarded(st, self, now) ==
    LET s1 == [st EXCEPT !.heap[self].status = RESOLVED]
        s2 == [s1 EXCEPT !.heap[self].updated_at = now]
    IN Return(add_history(s2, self, <<"Issue resolved">>, now), None)

\* Issue.resolve
resolve(st, self, now) ==
    IF st.heap[self].status # IN_PROGRESS
    THEN Raise(st, MsgNotInProg)
    ELSE LET s1 == [st EXCEPT !.heap[self].status = RESOLVED]
             s2 == [s1 EXCEPT !.heap[self].updated_at = now]
         IN Return(add_history(s2, self, <<"Issue resolved">>, now), None)

close_touches_before_check(st, self, now) ==
    LET s0 == [st EXCEPT !.heap[self].updated_at = now]
    IN IF st.heap[self].status # RESOLVED
       THEN Raise(s0, MsgNotResolved)
       ELSE LET s1 == [s0 EXCEPT !.heap[self].status = CLOSED]
            IN Return(add_history(s1, self, <<"Issue closed">>, now), None)

close_unguarded(st, self, now) ==
    LET s1 == [st EXCEPT !.heap[self].status = CLOSED]
        s2 == [s1 EXCEPT !.heap[self].updated_at = now]
    IN Return(add_history(s2, self, <<"Issue closed">>, now), None)

close_no_history(st, self, now) ==
    IF st.heap[self].status # RESOLVED
    THEN Raise(st, MsgNotResolved)
    ELSE LET s1 == [st EXCEPT !.heap[self].status = CLOSED]
             s2 == [s1 EXCEPT !.heap[self].updated_at = now]
         IN Return(s2, None)

\* Issue.close
close(st, self, now) ==
    IF st.heap[self].status # RESOLVED
    THEN Raise(st, MsgNotResolved)
    ELSE LET s1 == [st EXCEPT !.heap[self].status = CLOSED]
             s2 == [s1 EXCEPT !.heap[self].updated_at = now]
         IN Return(add_history(s2, self, <<"Issue closed">>, now), None)

\* ---------------------------------------------------------------- dict
\* A Python dict: entries in insertion order, at most one per key.
DictHas(d, k) == \E i \in 1..Len(d) : d[i].key = k

DictIndex(d, k) == CHOOSE i \in 1..Len(d) : d[i].key = k

DictGet(d, k) == IF DictHas(d, k) THEN d[DictIndex(d, k)].value ELSE None

DictSet_always_appends(d, k, v) == Append(d, [key |-> k, value |-> v])

DictSet(d, k, v) ==
    IF DictHas(d, k)
    THEN [d EXCEPT ![DictIndex(d, k)].value = v]
    ELSE Append(d, [key |-> k, value |-> v])

DictValues(d) == [i \in 1..Len(d) |-> d[i].value]

\* ---------------------------------------------------------------- repository
save_keyed_by_ref(st, issue) ==
    [st EXCEPT !.repository = DictSet(@, issue, issue)]

\* InMemoryIssueRepository.save
save(st, issue) ==
    [st EXCEPT !.repository = DictSet(@, st.heap[issue].issue_id, issue)]

\* InMemoryIssueRepository.get_by_id
get_by_id(st, issue_id) == DictGet(st.repository, issue_id)

\* InMemoryIssueRepository.get_all
get_all(st) == DictValues(st.repository)

\* ---------------------------------------------------------------- service
RECURSIVE Filter(_, _)
\* A list comprehension [x for x in s if x in keep], order preserved.
Filter(s, keep) ==
    IF s = <<>> THEN <<>>
    ELSE IF Head(s) \in keep THEN <<Head(s)>> \o Filter(Tail(s), keep)
                             ELSE Filter(Tail(s), keep)

get_issue_or_raise_fallback(st, issue_id) ==
    LET issue == get_by_id(st, issue_id)
    IN IF issue = None /\ Len(st.heap) = 0 THEN Raise(st, MsgNotFound)
       ELSE IF issue = None THEN Return(st, 1)
       ELSE Return(st, issue)

\* IssueService._get_issue_or_raise
get_issue_or_raise(st, issue_id) ==
    LET issue == get_by_id(st, issue_id)
    IN IF issue = None THEN Raise(st, MsgNotFound) ELSE Return(st, issue)

create_issue_not_saved(st, title, description, customer, priority, uuid, now) ==
    LET issue == Len(st.heap) + 1
        s1 == [st EXCEPT !.heap =
                 Append(@, Issue(title, description, customer, priority, uuid, now))]
    IN Return(s1, issue)

\* IssueService.create_issue
create_issue(st, title, description, customer, priority, uuid, now) ==
    LET issue == Len(st.heap) + 1
        s1 == [st EXCEPT !.heap =
                 Append(@, Issue(title, description, customer, priority, uuid, now))]
    IN Return(save(s1, issue), issue)

\* IssueService.assign_issue
assign_issue(st, issue_id, agent, now) ==
    LET g == get_issue_or_raise(st, issue_id)
    IN IF g.raised THEN g
       ELSE Return(save(assign_agent(st, g.ret, agent, now), g.ret), None)

\* IssueService.resolve_issue
resolve_issue(st, issue_id, now) ==
    LET g == get_issue_or_raise(st, issue_id)
    IN IF g.raised THEN g
       ELSE LET r == resolve(st, g.ret, now)
            IN IF r.raised THEN r ELSE Return(save(r.st, g.ret), None)

\* IssueService.close_issue
close_issue(st, issue_id, now) ==
    LET g == get_issue_or_raise(st, issue_id)
    IN IF g.raised THEN g
       ELSE LET r == close(st, g.ret, now)
            IN IF r.raised THEN r ELSE Return(save(r.st, g.ret), None)

get_issues_by_status_skips_closed(st, status) ==
    Filter(get_all(st),
           {i \in 1..Len(st.heap) : st.heap[i].status = status /\ status # CLOSED})

\* IssueService.get_issues_by_status
get_issues_by_status(st, status) ==
    Filter(get_all(st), {i \in 1..Len(st.heap) : st.heap[i].status = status})

get_issues_by_agent_ever(st, agent_id) ==
    Filter(get_all(st),
           {i \in 1..Len(st.heap) :
               \E a \in DOMAIN st.agents :
                  /\ st.agents[a].agent_id = agent_id
                  /\ \E k \in 1..Len(st.agents[a].active_issues) :
                        st.agents[a].active_issues[k] = st.heap[i].issue_id})

\* IssueService.get_issues_by_agent
get_issues_by_agent(st, agent_id) ==
    Filter(get_all(st),
           {i \in 1..Len(st.heap) :
               /\ st.heap[i].agent # None
               /\ st.agents[st.heap[i].agent].agent_id = agent_id})

\* ---------------------------------------------------------------- threads
Threads == 1..NumThreads

LifecycleOps == {"assign_issue", "resolve_issue", "close_issue"}

\* A thread that has not called the service yet.
IdleThread ==
    [pc |-> "idle", op |-> "", issue_id |-> None, agent |-> None,
     issue |-> None, seen |-> "", timestamp |-> None,
     raised |-> FALSE, msg |-> ""]

\* ---------------------------------------------------------------- Inventory
InvThreads == 1..NumInvThreads

\* Inventory.__init__
Inventory == [items |-> <<>>, item_id |-> 0, lock |-> None]

\* The class attributes _instance and _lock, the Inventory objects
\* constructed so far, and each thread's position in get_instance.
InventoryClass ==
    [instance |-> None, lock |-> None, objects |-> <<>>,
     pc |-> [t \in InvThreads |-> "idle"],
     calls |-> [t \in InvThreads |-> 0],
     returned |-> {}]

\* ---------------------------------------------------------------- machine
UsedUuids == {heap[i].issue_id : i \in 1..Len(heap)}

\* What the caller saw from the last call.
Outcome(op, issue_id, agent, res) ==
    [op |-> op, issue_id |-> issue_id, agent |-> agent,
     raised |-> res.raised, exc |-> IF res.raised THEN "Exception" ELSE "",
     msg |-> res.msg, ret |-> res.ret]

Commit(res) ==
    /\ heap' = res.st.heap
    /\ agents' = res.st.agents
    /\ repository' = res.st.repository
    /\ clock' = clock + 1
    /\ UNCHANGED <<thr, inv>>

Init ==
    /\ heap = <<>>
    /\ agents = [a \in AgentRefs |-> Agent(AgentIdPool[a], AgentNamePool[a])]
    /\ repository = <<>>
    /\ clock = 0
    /\ last = [op |-> "init", issue_id |-> None, agent |-> None,
               raised |-> FALSE, exc |-> "", msg |-> "", ret |-> None]
    /\ nOps = <<>>
    /\ thr = [t \in Threads |-> IdleThread]
    /\ inv = InventoryClass

CreateIssue ==
    /\ clock < MaxClock
    /\ Len(heap) < MaxIssues
    /\ \E title \in Titles, description \in Descriptions,
          customer \in Customers, priority \in PriorityInputs,
          uuid \in Uuids \ UsedUuids :
          LET res == create_issue(State, title, description, customer,
                                  priority, uuid, clock + 1)
          IN /\ Commit(res)
             /\ last' = Outcome("create_issue", None, None, res)
             /\ nOps' = Append(nOps, 0)

\* nOps counts, per Issue object, the lifecycle calls that returned normally.
Count(res, issue_id) ==
    IF res.raised THEN nOps
    ELSE [nOps EXCEPT ![get_by_id(State, issue_id)] = @ + 1]

AssignIssue ==
    /\ clock < MaxClock
    /\ \E issue_id \in Uuids, agent \in AgentRefs :
          LET res == assign_issue(State, issue_id, agent, clock + 1)
          IN /\ Commit(res)
             /\ last' = Outcome("assign_issue", issue_id, agent, res)
             /\ nOps' = Count(res, issue_id)

ResolveIssue ==
    /\ clock < MaxClock
    /\ \E issue_id \in Uuids :
          LET res == resolve_issue(State, issue_id, clock + 1)
          IN /\ Commit(res)
             /\ last' = Outcome("resolve_issue", issue_id, None, res)
             /\ nOps' = Count(res, issue_id)

CloseIssue ==
    /\ clock < MaxClock
    /\ \E issue_id \in Uuids :
          LET res == close_issue(State, issue_id, clock + 1)
          IN /\ Commit(res)
             /\ last' = Outcome("close_issue", issue_id, None, res)
             /\ nOps' = Count(res, issue_id)

Next == CreateIssue \/ AssignIssue \/ ResolveIssue \/ CloseIssue

Spec == Init /\ [][Next]_vars

\* ---------------------------------------------------------------- concurrent calls
\* The service called from several threads with no lock: each thread makes
\* one lifecycle call and the calls interleave statement by statement.

\* The statement a call executes after the one at pc.
NextPc(op, pc) ==
    IF op = "assign_issue"
    THEN CASE pc = "lookup"  -> "agent"
           [] pc = "agent"   -> "status"
           [] pc = "status"  -> "active"
           [] pc = "active"  -> "stamp"
           [] pc = "stamp"   -> "append"
           [] pc = "append"  -> "save"
           [] pc = "save"    -> "done"
    ELSE CASE pc = "lookup"  -> "check"
           [] pc = "check"   -> "status"
           [] pc = "status"  -> "updated"
           [] pc = "updated" -> "stamp"
           [] pc = "stamp"   -> "append"
           [] pc = "append"  -> "save"
           [] pc = "save"    -> "done"

Advance(t) == [thr EXCEPT ![t].pc = NextPc(thr[t].op, thr[t].pc)]

Fail(t, msg) == [thr EXCEPT ![t].pc = "done", ![t].raised = TRUE, ![t].msg = msg]

\* The status each call requires and the one it sets.
Required(op) == IF op = "resolve_issue" THEN IN_PROGRESS ELSE RESOLVED

Target(op) ==
    CASE op = "assign_issue"  -> IN_PROGRESS
      [] op = "resolve_issue" -> RESOLVED
      [] op = "close_issue"   -> CLOSED

Refusal(op) == IF op = "resolve_issue" THEN MsgNotInProg ELSE MsgNotResolved

HistoryAction(op, agent) ==
    CASE op = "assign_issue"  -> <<"Issue assigned to agent", agents[agent].name>>
      [] op = "resolve_issue" -> <<"Issue resolved">>
      [] op = "close_issue"   -> <<"Issue closed">>

FirstUuid == CHOOSE u \in Uuids : \A v \in Uuids : u <= v

\* The states one issue is in after create_issue, then assign_issue, then
\* resolve_issue, called one after the other.
Prefix(n) ==
    LET s0 == [heap |-> <<>>,
               agents |-> [a \in AgentRefs |-> Agent(AgentIdPool[a], AgentNamePool[a])],
               repository |-> <<>>]
        s1 == create_issue(s0, CHOOSE x \in Titles : TRUE,
                           CHOOSE x \in Descriptions : TRUE,
                           CHOOSE x \in Customers : TRUE,
                           CHOOSE x \in PriorityInputs : TRUE, FirstUuid, 1).st
        s2 == assign_issue(s1, FirstUuid, CHOOSE a \in AgentRefs : TRUE, 2).st
        s3 == resolve_issue(s2, FirstUuid, 3).st
    IN CASE n = 1 -> s1 [] n = 2 -> s2 [] n = 3 -> s3

ConcInit ==
    /\ \E n \in 1..3 :
          /\ heap = Prefix(n).heap
          /\ agents = Prefix(n).agents
          /\ repository = Prefix(n).repository
          /\ clock = n
          /\ nOps = <<n - 1>>
    /\ last = [op |-> "init", issue_id |-> None, agent |-> None,
               raised |-> FALSE, exc |-> "", msg |-> "", ret |-> None]
    /\ thr = [t \in Threads |-> IdleThread]
    /\ inv = InventoryClass

\* A thread enters assign_issue, resolve_issue or close_issue.
ConcCall(t) ==
    /\ thr[t].pc = "idle"
    /\ \E op \in LifecycleOps, issue_id \in {repository[k].key : k \in 1..Len(repository)} :
          \E agent \in (IF op = "assign_issue" THEN AgentRefs ELSE {None}) :
             thr' = [thr EXCEPT ![t].pc = "lookup", ![t].op = op,
                                ![t].issue_id = issue_id, ![t].agent = agent]
    /\ clock' = clock + 1
    /\ UNCHANGED <<heap, agents, repository, last, nOps, inv>>

\* issue = self._get_issue_or_raise(issue_id)
ConcLookup(t) ==
    /\ thr[t].pc = "lookup"
    /\ LET g == get_issue_or_raise(State, thr[t].issue_id)
       IN thr' = IF g.raised THEN Fail(t, g.msg)
                 ELSE [Advance(t) EXCEPT ![t].issue = g.ret]
    /\ UNCHANGED <<heap, agents, repository, clock, last, nOps, inv>>

\* if self.status != <required>: raise Exception(...)
ConcCheck(t) ==
    /\ thr[t].pc = "check"
    /\ LET status == heap[thr[t].issue].status
       IN thr' = IF status # Required(thr[t].op)
                 THEN [Fail(t, Refusal(thr[t].op)) EXCEPT ![t].seen = status]
                 ELSE [Advance(t) EXCEPT ![t].seen = status]
    /\ UNCHANGED <<heap, agents, repository, clock, last, nOps, inv>>

\* self.agent = agent
ConcSetAgent(t) ==
    /\ thr[t].pc = "agent"
    /\ heap' = [heap EXCEPT ![thr[t].issue].agent = thr[t].agent]
    /\ thr' = Advance(t)
    /\ UNCHANGED <<agents, repository, clock, last, nOps, inv>>

ConcSetStatus_compare_and_set(t) ==
    /\ thr[t].pc = "status"
    /\ IF thr[t].op # "assign_issue" /\ heap[thr[t].issue].status # Required(thr[t].op)
       THEN /\ thr' = Fail(t, Refusal(thr[t].op))
            /\ heap' = heap
       ELSE /\ heap' = [heap EXCEPT ![thr[t].issue].status = Target(thr[t].op)]
            /\ thr' = Advance(t)
    /\ UNCHANGED <<agents, repository, clock, last, nOps, inv>>

\* self.status = <target>
ConcSetStatus(t) ==
    /\ thr[t].pc = "status"
    /\ heap' = [heap EXCEPT ![thr[t].issue].status = Target(thr[t].op)]
    /\ thr' = Advance(t)
    /\ UNCHANGED <<agents, repository, clock, last, nOps, inv>>

\* agent.active_issues.append(self.issue_id)
ConcAppendActive(t) ==
    /\ thr[t].pc = "active"
    /\ agents' = [agents EXCEPT ![thr[t].agent].active_issues =
                     Append(@, heap[thr[t].issue].issue_id)]
    /\ thr' = Advance(t)
    /\ UNCHANGED <<heap, repository, clock, last, nOps, inv>>

\* self.updated_at = datetime.now()
ConcSetUpdatedAt(t) ==
    /\ thr[t].pc = "updated"
    /\ heap' = [heap EXCEPT ![thr[t].issue].updated_at = clock]
    /\ thr' = Advance(t)
    /\ UNCHANGED <<agents, repository, clock, last, nOps, inv>>

\* timestamp = datetime.now().isoformat()
ConcReadTimestamp(t) ==
    /\ thr[t].pc = "stamp"
    /\ thr' = [Advance(t) EXCEPT ![t].timestamp = clock]
    /\ UNCHANGED <<heap, agents, repository, clock, last, nOps, inv>>

\* self.history.append(f"{timestamp} - {action}")
ConcAppendHistory(t) ==
    /\ thr[t].pc = "append"
    /\ heap' = add_history(State, thr[t].issue,
                           HistoryAction(thr[t].op, thr[t].agent),
                           thr[t].timestamp).heap
    /\ thr' = Advance(t)
    /\ UNCHANGED <<agents, repository, clock, last, nOps, inv>>

\* self.repository.save(issue), then the call returns
ConcSave(t) ==
    /\ thr[t].pc = "save"
    /\ repository' = save(State, thr[t].issue).repository
    /\ thr' = Advance(t)
    /\ nOps' = [nOps EXCEPT ![thr[t].issue] = @ + 1]
    /\ UNCHANGED <<heap, agents, clock, last, inv>>

ConcNext ==
    \E t \in Threads :
       \/ ConcCall(t)
       \/ ConcLookup(t)
       \/ ConcCheck(t)
       \/ ConcSetAgent(t)
       \/ ConcSetStatus(t)
       \/ ConcAppendActive(t)
       \/ ConcSetUpdatedAt(t)
       \/ ConcReadTimestamp(t)
       \/ ConcAppendHistory(t)
       \/ ConcSave(t)

SpecConc == ConcInit /\ [][ConcNext]_vars

\* ---------------------------------------------------------------- Inventory.get_instance
\* Threads call the classmethod get_instance; the calls interleave
\* statement by statement.  pc names the statement a thread is about to run.

InvGoto(t, label) == [inv EXCEPT !.pc[t] = label]

\* A thread enters get_instance.
InvCall(t) ==
    /\ inv.pc[t] = "idle"
    /\ inv.calls[t] < MaxCalls
    /\ inv' = [InvGoto(t, "check1") EXCEPT !.calls[t] = @ + 1]
    /\ UNCHANGED <<heap, agents, repository, clock, last, nOps, thr>>

\* if not cls._instance:            (outside the lock)
InvCheck1(t) ==
    /\ inv.pc[t] = "check1"
    /\ inv' = IF inv.instance = None THEN InvGoto(t, "acquire")
                                     ELSE InvGoto(t, "return")
    /\ UNCHANGED <<heap, agents, repository, clock, last, nOps, thr>>

\* with cls._lock:                  (blocks while another thread holds it)
InvAcquire(t) ==
    /\ inv.pc[t] = "acquire"
    /\ inv.lock = None
    /\ inv' = [InvGoto(t, "check2") EXCEPT !.lock = t]
    /\ UNCHANGED <<heap, agents, repository, clock, last, nOps, thr>>

InvCheck2_skipped(t) ==
    /\ inv.pc[t] = "check2"
    /\ inv' = InvGoto(t, "construct")
    /\ UNCHANGED <<heap, agents, repository, clock, last, nOps, thr>>

\* if not cls._instance:            (under the lock)
InvCheck2(t) ==
    /\ inv.pc[t] = "check2"
    /\ inv' = IF inv.instance = None THEN InvGoto(t, "construct")
                                     ELSE InvGoto(t, "release")
    /\ UNCHANGED <<heap, agents, repository, clock, last, nOps, thr>>

\* cls(): Inventory.__init__ runs on a new object
InvConstruct(t) ==
    /\ inv.pc[t] = "construct"
    /\ inv' = [InvGoto(t, "store") EXCEPT !.objects = Append(@, Inventory)]
    /\ UNCHANGED <<heap, agents, repository, clock, last, nOps, thr>>

\* cls._instance = <the new object>
InvStore(t) ==
    /\ inv.pc[t] = "store"
    /\ inv' = [InvGoto(t, "release") EXCEPT !.instance = Len(inv.objects)]
    /\ UNCHANGED <<heap, agents, repository, clock, last, nOps, thr>>

\* leaving the with block releases cls._lock
InvRelease(t) ==
    /\ inv.pc[t] = "release"
    /\ inv' = [InvGoto(t, "return") EXCEPT !.lock = None]
    /\ UNCHANGED <<heap, agents, repository, clock, last, nOps, thr>>

\* return cls._instance
InvReturn(t) ==
    /\ inv.pc[t] = "return"
    /\ inv' = [InvGoto(t, "idle") EXCEPT !.returned = @ \cup {inv.instance}]
    /\ UNCHANGED <<heap, agents, repository, clock, last, nOps, thr>>

\* The statements of a call that is under way.
InvStep(t) ==
    \/ InvCheck1(t)
    \/ InvAcquire(t)
    \/ InvCheck2(t)
    \/ InvConstruct(t)
    \/ InvStore(t)
    \/ InvRelease(t)
    \/ InvReturn(t)

InvNext == \E t \in InvThreads : InvCall(t) \/ InvStep(t)

\* Every thread that is inside get_instance keeps being scheduled.
SpecInv == Init /\ [][InvNext]_vars /\ \A t \in InvThreads : WF_vars(InvStep(t))

\* ---------------------------------------------------------------- properties
Refs == 1..Len(heap)

\* The Issue objects the repository holds, found through get_by_id.
Stored == {get_by_id(State, u) : u \in Uuids} \ {None}

Range(s) == {s[k] : k \in 1..Len(s)}

NoDuplicates(s) == \A j, k \in 1..Len(s) : s[j] = s[k] => j = k

Actions(i) == [k \in 1..Len(heap[i].history) |-> heap[i].history[k].action[1]]

LegalSteps == {<<OPEN, IN_PROGRESS>>, <<IN_PROGRESS, RESOLVED>>, <<RESOLVED, CLOSED>>}

\* C1: every change of an issue's status is OPEN to IN_PROGRESS, IN_PROGRESS
\* to RESOLVED or RESOLVED to CLOSED; in particular CLOSED is never left.
C1_OnlyLegalTransitions ==
    [][\A i \in Refs :
          heap'[i].status # heap[i].status
             => <<heap[i].status, heap'[i].status>> \in LegalSteps]_vars

\* C2: on a stored issue resolve_issue returns normally exactly when the
\* status was IN_PROGRESS before the call, and then the status is RESOLVED;
\* otherwise it raises the invalid-transition error and the status is kept.
C2_ResolveIffInProgress ==
    [][\A id \in Uuids :
          (last'.op = "resolve_issue" /\ last'.issue_id = id
              /\ get_by_id(State, id) # None)
          => LET r == get_by_id(State, id)
             IN /\ (~last'.raised) <=> (heap[r].status = IN_PROGRESS)
                /\ (~last'.raised) => heap'[r].status = RESOLVED
                /\ last'.raised => /\ last'.msg = MsgNotInProg
                                   /\ heap'[r].status = heap[r].status]_vars

\* A resolve_issue call refused on an issue that an earlier call resolved.
C2_Witness ==
    /\ last.op = "resolve_issue" /\ last.raised /\ last.msg = MsgNotInProg
    /\ get_by_id(State, last.issue_id) # None
    /\ heap[get_by_id(State, last.issue_id)].status = RESOLVED

\* C3: on a stored issue close_issue returns normally exactly when the
\* status was RESOLVED before the call, and then the status is CLOSED;
\* otherwise it raises the invalid-transition error and the status is kept.
C3_CloseIffResolved ==
    [][\A id \in Uuids :
          (last'.op = "close_issue" /\ last'.issue_id = id
              /\ get_by_id(State, id) # None)
          => LET r == get_by_id(State, id)
             IN /\ (~last'.raised) <=> (heap[r].status = RESOLVED)
                /\ (~last'.raised) => heap'[r].status = CLOSED
                /\ last'.raised => /\ last'.msg = MsgNotResolved
                                   /\ heap'[r].status = heap[r].status]_vars

\* A close_issue call refused on an issue that an earlier call closed.
C3_Witness ==
    /\ last.op = "close_issue" /\ last.raised /\ last.msg = MsgNotResolved
    /\ get_by_id(State, last.issue_id) # None
    /\ heap[get_by_id(State, last.issue_id)].status = CLOSED

\* C4: on a stored issue in any status, assign_issue returns normally, the
\* issue is IN_PROGRESS with the passed agent, and its history is one longer.
C4_AssignAlwaysSucceeds ==
    [][\A id \in Uuids, a \in AgentRefs :
          (last'.op = "assign_issue" /\ last'.issue_id = id /\ last'.agent = a
              /\ get_by_id(State, id) # None)
          => LET r == get_by_id(State, id)
             IN /\ ~last'.raised
                /\ heap'[r].status = IN_PROGRESS
                /\ heap'[r].agent = a
                /\ Len(heap'[r].history) = Len(heap[r].history) + 1]_vars

\* An assign_issue call that returned on an issue closed just before.
C4_Witness ==
    /\ last.op = "assign_issue" /\ ~last.raised
    /\ LET r == get_by_id(State, last.issue_id)
       IN /\ r # None
          /\ Len(heap[r].history) >= 2
          /\ Actions(r)[Len(heap[r].history) - 1] = "Issue closed"

\* C5: the issue create_issue returns is OPEN, has no agent and an empty
\* history, and get_by_id with its id returns it.
C5_CreatedOpenAndStored ==
    last.op = "create_issue"
       => /\ ~last.raised
          /\ last.ret \in Refs
          /\ heap[last.ret].status = OPEN
          /\ heap[last.ret].agent = None
          /\ heap[last.ret].history = <<>>
          /\ get_by_id(State, heap[last.ret].issue_id) = last.ret

\* A second issue was just created while the first one is already closed.
C5_Witness ==
    /\ last.op = "create_issue" /\ last.ret = 2
    /\ heap[1].status = CLOSED

\* C6: an issue has an agent exactly when its status is IN_PROGRESS,
\* RESOLVED or CLOSED.
C6_AgentIffPastOpen ==
    \A i \in Refs :
       (heap[i].agent # None) <=> (heap[i].status \in {IN_PROGRESS, RESOLVED, CLOSED})

\* One issue still OPEN and unassigned, another one assigned and closed.
C6_Witness ==
    \E i, j \in Refs :
       /\ heap[i].status = OPEN /\ heap[i].agent = None
       /\ heap[j].status = CLOSED /\ heap[j].agent # None

\* C7: with an identifier the repository does not hold, assign_issue,
\* resolve_issue and close_issue raise the not-found error, which differs
\* from both invalid-transition errors, and leave every issue, every
\* agent's active_issues and the repository as they were.
C7_UnknownIdRaisesNotFound ==
    [][\A id \in Uuids :
          (last'.op \in {"assign_issue", "resolve_issue", "close_issue"}
              /\ last'.issue_id = id /\ get_by_id(State, id) = None)
          => /\ last'.raised
             /\ last'.msg = MsgNotFound
             /\ last'.msg \notin {MsgNotInProg, MsgNotResolved}
             /\ heap' = heap
             /\ agents' = agents
             /\ repository' = repository]_vars

\* A not-found failure of assign_issue while the repository holds an issue.
C7_Witness ==
    /\ last.op = "assign_issue" /\ last.raised /\ last.msg = MsgNotFound
    /\ repository # <<>>
    /\ get_by_id(State, last.issue_id) = None

\* C8: the length of an issue's history equals the number of assign,
\* resolve and close calls on it that returned normally, and never shrinks.
C8_HistoryCountsSuccesses ==
    /\ [](\A i \in Refs : Len(heap[i].history) = nOps[i])
    /\ [][\A i \in Refs : Len(heap'[i].history) >= Len(heap[i].history)]_vars

\* An issue taken through assign, resolve and close, then a refused call.
C8_Witness ==
    /\ last.raised
    /\ \E i \in Refs : nOps[i] = 3 /\ heap[i].status = CLOSED

\* C9: for every status S, get_issues_by_status(S) holds exactly the stored
\* issues whose status is S, each once.
C9_ByStatusExact ==
    \A S \in IssueStatus :
       LET res == get_issues_by_status(State, S)
       IN /\ Range(res) = {r \in Stored : heap[r].status = S}
          /\ NoDuplicates(res)

\* Two stored issues, one CLOSED and one still OPEN.
C9_Witness ==
    /\ Len(get_issues_by_status(State, CLOSED)) = 1
    /\ Len(get_issues_by_status(State, OPEN)) = 1
    /\ Cardinality(Stored) = 2

AgentIds == Range(AgentIdPool)

AssignedTo(agent_id) ==
    {r \in Stored : /\ heap[r].agent # None
                    /\ agents[heap[r].agent].agent_id = agent_id}

\* C10: for every agent id A, get_issues_by_agent(A) holds exactly the stored
\* issues whose assigned agent has id A, each once and never one without an
\* agent; an issue re-assigned from A to B is then returned for B, not for A.
C10_ByAgentExact ==
    /\ [](\A A \in AgentIds :
            LET res == get_issues_by_agent(State, A)
            IN /\ Range(res) = AssignedTo(A)
               /\ NoDuplicates(res)
               /\ \A r \in Range(res) : heap[r].agent # None)
    /\ [][\A id \in Uuids, b \in AgentRefs :
            (last'.op = "assign_issue" /\ last'.issue_id = id /\ last'.agent = b
               /\ get_by_id(State, id) # None
               /\ heap[get_by_id(State, id)].agent \notin {None, b})
            => LET r == get_by_id(State, id)
                   a == heap[r].agent
               IN /\ r \in Range(get_issues_by_agent(State, agents[a].agent_id))
                  /\ r \in Range(get_issues_by_agent(State', agents[b].agent_id))
                  /\ r \notin Range(get_issues_by_agent(State', agents[a].agent_id))]_vars

\* An issue whose last two history entries assign it to two different agents.
C10_Witness ==
    /\ last.op = "assign_issue" /\ ~last.raised
    /\ LET r == get_by_id(State, last.issue_id)
           n == Len(heap[r].history)
       IN /\ n >= 2
          /\ heap[r].history[n - 1].action[1] = "Issue assigned to agent"
          /\ heap[r].history[n - 1].action # heap[r].history[n].action
          /\ Len(get_issues_by_agent(State, agents[last.agent].agent_id)) >= 1

Keys(d) == {d[k].key : k \in 1..Len(d)}

Without(d, key) == SelectSeq(d, LAMBDA e : e.key # key)

EntriesFor(d, key) == {k \in 1..Len(d) : d[k].key = key}

\* C11: save is an idempotent upsert keyed by issue_id: after saving an
\* issue, stored or not, there is exactly one entry for its id and it holds
\* that issue; saving it again changes nothing; a stored id keeps the number
\* of entries; no entry under another id changes.
C11_SaveIdempotentUpsert ==
    \A i \in Refs :
       LET id == heap[i].issue_id
           absent == [State EXCEPT !.repository = Without(@, id)]
       IN \A st \in {State, absent} :
             LET s1 == save(st, i)
                 s2 == save(s1, i)
             IN /\ s2 = s1
                /\ Cardinality(EntriesFor(s1.repository, id)) = 1
                /\ get_by_id(s1, id) = i
                /\ s1.heap = st.heap
                /\ DictHas(st.repository, id)
                      => Len(s1.repository) = Len(st.repository)
                /\ \A u \in Uuids \ {id} : get_by_id(s1, u) = get_by_id(st, u)

\* A lifecycle call has re-saved an issue while the repository holds two.
C11_Witness ==
    /\ last.op \in {"assign_issue", "resolve_issue", "close_issue"}
    /\ ~last.raised
    /\ Len(repository) = 2
    /\ heap[get_by_id(State, last.issue_id)].updated_at = clock

\* C12: on a freshly created issue assign_issue succeeds and gives
\* IN_PROGRESS, then resolve_issue succeeds and gives RESOLVED, then
\* close_issue succeeds and gives CLOSED; afterwards the agent's
\* active_issues contains the id and the history is exactly assigned,
\* resolved, closed.
C12_HappyPath ==
    [][\A id \in Uuids :
          (last'.issue_id = id /\ get_by_id(State, id) # None)
          => LET r == get_by_id(State, id)
             IN /\ (last'.op = "assign_issue" /\ heap[r].history = <<>>
                       /\ heap[r].status = OPEN)
                    => /\ ~last'.raised
                       /\ heap'[r].status = IN_PROGRESS
                /\ (last'.op = "resolve_issue"
                       /\ Actions(r) = <<"Issue assigned to agent">>)
                    => /\ ~last'.raised
                       /\ heap'[r].status = RESOLVED
                /\ (last'.op = "close_issue"
                       /\ Actions(r) = <<"Issue assigned to agent", "Issue resolved">>)
                    => /\ ~last'.raised
                       /\ heap'[r].status = CLOSED
                       /\ Len(heap'[r].history) = 3
                       /\ heap'[r].history[1].action =
                             <<"Issue assigned to agent", agents[heap'[r].agent].name>>
                       /\ heap'[r].history[2].action = <<"Issue resolved">>
                       /\ heap'[r].history[3].action = <<"Issue closed">>
                       /\ id \in Range(agents'[heap'[r].agent].active_issues)]_vars

\* close_issue has just completed the three-call sequence on an issue.
C12_Witness ==
    /\ last.op = "close_issue" /\ ~last.raised
    /\ Actions(get_by_id(State, last.issue_id)) =
          <<"Issue assigned to agent", "Issue resolved", "Issue closed">>

Occurrences(s, x) == Cardinality({k \in 1..Len(s) : s[k] = x})

\* C13: an issue id is in agent A's active_issues exactly when the issue's
\* agent is A, and it appears there once.
C13_ActiveIssuesAreCurrent ==
    \A a \in AgentRefs, i \in Refs :
       Occurrences(agents[a].active_issues, heap[i].issue_id)
          = IF heap[i].agent = a THEN 1 ELSE 0

\* C14: updated_at equals the time of the issue's most recent successful
\* transition (assign, resolve or close), or the creation time if none.
C14_UpdatedAtIsLastTransition ==
    \A i \in Refs :
       heap[i].updated_at =
          IF heap[i].history = <<>> THEN heap[i].created_at
          ELSE heap[i].history[Len(heap[i].history)].timestamp

\* C15: across every operation an issue's history before is a prefix of
\* its history after.
C15_HistoryAppendOnly ==
    [][\A i \in Refs :
          /\ Len(heap'[i].history) >= Len(heap[i].history)
          /\ SubSeq(heap'[i].history, 1, Len(heap[i].history)) = heap[i].history]_vars

\* An entry was just appended to a history that already had two entries.
C15_Witness ==
    /\ ~last.raised /\ last.op \in {"assign_issue", "resolve_issue", "close_issue"}
    /\ Len(heap[get_by_id(State, last.issue_id)].history) = 3
    /\ heap[get_by_id(State, last.issue_id)].history[3].timestamp = clock

\* C18: the stored ids only grow: create_issue adds exactly one entry, under
\* an id not stored before, and changes no other entry; assign_issue,
\* resolve_issue and close_issue add and remove none; every key is the
\* issue_id of the issue stored under it; what get_by_id returned for an id
\* it keeps returning.
C18_StoredIdsOnlyGrow ==
    /\ [](\A k \in 1..Len(repository) :
             /\ repository[k].value \in Refs
             /\ repository[k].key = heap[repository[k].value].issue_id)
    /\ [][/\ last'.op = "create_issue"
             => /\ Len(repository') = Len(repository) + 1
                /\ SubSeq(repository', 1, Len(repository)) = repository
                /\ repository'[Len(repository')].key \notin Keys(repository)
                /\ repository'[Len(repository')].value = last'.ret
          /\ last'.op \in {"assign_issue", "resolve_issue", "close_issue"}
             => /\ Len(repository') = Len(repository)
                /\ Keys(repository') = Keys(repository)
          /\ \A u \in Uuids :
                get_by_id(State, u) # None
                   => get_by_id(State', u) = get_by_id(State, u)]_vars

\* A second id was stored after a lifecycle call on the first issue.
C18_Witness ==
    /\ last.op = "create_issue"
    /\ Cardinality(Keys(repository)) = 2
    /\ nOps[1] >= 1

\* C19: a resolve_issue or close_issue call refused for the issue's status
\* leaves every issue, every agent and the repository as they were.
C19_FailedTransitionChangesNothing ==
    [][(/\ last'.op \in {"resolve_issue", "close_issue"}
        /\ last'.raised
        /\ last'.msg \in {MsgNotInProg, MsgNotResolved})
       => /\ heap' = heap
          /\ agents' = agents
          /\ repository' = repository]_vars

\* close_issue refused on an issue that is still IN_PROGRESS.
C19_Witness ==
    /\ last.op = "close_issue" /\ last.raised /\ last.msg = MsgNotResolved
    /\ heap[get_by_id(State, last.issue_id)].status = IN_PROGRESS

\* The history entries the threads appended: those after the entries the
\* issue had when the threads started.
InitialLen(i) ==
    nOps[i] - Cardinality({t \in Threads : thr[t].pc = "done" /\ ~thr[t].raised})

AppendedBy(i, action) ==
    Cardinality({k \in 1..Len(heap[i].history) :
                    k > InitialLen(i) /\ Actions(i)[k] = action})

PastAppend(op) ==
    {t \in Threads : thr[t].op = op /\ thr[t].pc \in {"save", "done"} /\ ~thr[t].raised}

\* C16: with calls interleaved statement by statement and no lock, a
\* resolve_issue or close_issue call that read the required status at its
\* check is never refused afterwards, whatever other calls did to the issue
\* in between, and appends its history entry: the 'Issue resolved' entries
\* appended are as many as the resolve_issue calls past their append.  So
\* two resolve_issue calls on one IN_PROGRESS issue can both succeed and
\* leave two entries (C16_Witness).
C16_PassedCheckAlwaysCompletes ==
    /\ \A t \in Threads :
          (thr[t].op \in {"resolve_issue", "close_issue"}
              /\ thr[t].seen = Required(thr[t].op))
          => ~thr[t].raised
    /\ \A i \in Refs :
          AppendedBy(i, "Issue resolved") = Cardinality(PastAppend("resolve_issue"))

\* Two resolve_issue calls on the same issue both saw IN_PROGRESS, both
\* returned normally, and the history has two 'Issue resolved' entries.
C16_Witness ==
    \E t1, t2 \in Threads :
       /\ t1 # t2
       /\ \A t \in {t1, t2} :
             /\ thr[t].op = "resolve_issue" /\ thr[t].pc = "done"
             /\ ~thr[t].raised /\ thr[t].seen = IN_PROGRESS
       /\ thr[t1].issue = thr[t2].issue
       /\ heap[thr[t1].issue].status = RESOLVED
       /\ AppendedBy(thr[t1].issue, "Issue resolved") = 2
       /\ Occurrences(Actions(thr[t1].issue), "Issue resolved") = 2

\* C17: under every interleaving of get_instance calls the Inventory
\* constructor runs at most once, every call returns the same instance, the
\* class lock is held only by a thread inside the with block and is free
\* whenever no call is under way, and every call that started returns.
C17_SingletonUnderInterleaving ==
    /\ [](Len(inv.objects) <= 1)
    /\ [](Cardinality(inv.returned) <= 1 /\ None \notin inv.returned)
    /\ [](\A t \in InvThreads :
             (inv.lock = t) <=> (inv.pc[t] \in {"check2", "construct", "store", "release"}))
    /\ []((\A t \in InvThreads : inv.pc[t] = "idle") => inv.lock = None)
    /\ \A t \in InvThreads : (inv.pc[t] # "idle") ~> (inv.pc[t] = "idle")

\* A thread that saw no instance at the first check holds the lock at the
\* second check after another thread stored the instance and returned it.
C17_Witness ==
    \E t \in InvThreads :
       /\ inv.pc[t] = "check2"
       /\ inv.lock = t
       /\ inv.instance # None
       /\ inv.returned = {inv.instance}

====
